---------------------------- MODULE Spec2Model ----------------------------
(***************************************************************************)
(* Model of app.py, the AI Nutrition Diet Planner: a Streamlit script that *)
(* builds a prompt from a form, truncates it to the free-tier limit, posts *)
(* it to the Hugging Face Inference API and renders the reply.             *)
(*                                                                         *)
(* Python strings are sequences of one-character strings, so that len(),   *)
(* slicing, str.strip(), str.format() and the "in" operator are computed   *)
(* character by character.                                                 *)
(***************************************************************************)
EXTENDS Integers, Sequences, FiniteSets, TLC

VARIABLES
    HUGGINGFACE_API_KEY,    \* os.environ.get("HUGGINGFACE_API_KEY"), read at every script run
    nutrition_query,        \* value of the text_area widget of the form
    weight,                 \* number_input "Weight (kg)", in tenths of a kg (step 0.1)
    height,                 \* number_input "Height (cm)", in tenths of a cm (step 0.1)
    activity_level,         \* selectbox "Activity Level"
    food_restriction,       \* text_input "Food Restrictions (if any)"
    goal,                   \* text_input "Nutrition Goal"
    additional_info,        \* value of the clarification text_input
    form_rendered,          \* the last script run rendered the form
    clarification_rendered, \* the last script run rendered the clarification input
    rerun_pending,          \* a widget change has requested a rerun that has not started yet
    last_run,               \* what triggered the last script run, and the inputs it saw
    main_reached,           \* the last script run reached main()
    key_error,              \* st.error of line 8 is on the screen
    validation_error,       \* st.error of line 106 is on the screen
    runs,                   \* the pipeline runs of the last script run, in order
    uncaught,               \* the exception that ended the last script run, or "none"
    fn_args,                \* function harness: the arguments a function is applied to
    fn_result,              \* function harness: what the applications returned
    fn_pc                   \* function harness: number of applications done

widgets == <<nutrition_query, weight, height, activity_level, food_restriction, goal>>
screen  == <<main_reached, key_error, validation_error, runs, uncaught>>
session == <<additional_info, form_rendered, clarification_rendered, rerun_pending, last_run>>
fnvars  == <<fn_args, fn_result, fn_pc>>
vars    == <<HUGGINGFACE_API_KEY, widgets, screen, session, fnvars>>

---------------------------------------------------------------------------
(* Bounds of the model *)

\* length of the long query: with the default profile the built prompt then
\* has exactly FREE_TIER_LIMIT characters, and one more with LongQueryLen + 1
LongQueryLen == 85
\* the Limit Enforcer on its own: longest prompt and largest limit
MaxStrLen == 4
MaxLimit == 4
\* the Prompt Builder on its own: longest query
MaxQueryLen == 5

---------------------------------------------------------------------------
(* Python strings *)

\* the characters str.strip() removes that occur in the model's inputs
Whitespace == {" ", "\n"}

RECURSIVE Repeat(_, _)
Repeat(c, n) == IF n <= 0 THEN <<>> ELSE <<c>> \o Repeat(c, n - 1)

\* prompt[:limit]
Slice(s, limit) ==
    LET stop == IF limit < 0
                THEN (IF Len(s) + limit < 0 THEN 0 ELSE Len(s) + limit)
                ELSE (IF limit > Len(s) THEN Len(s) ELSE limit)
    IN  SubSeq(s, 1, stop)

RECURSIVE lstrip(_)
lstrip(s) ==
    IF s = <<>> THEN s
    ELSE IF Head(s) \in Whitespace THEN lstrip(Tail(s)) ELSE s

RECURSIVE rstrip(_)
rstrip(s) ==
    IF s = <<>> THEN s
    ELSE IF s[Len(s)] \in Whitespace THEN rstrip(SubSeq(s, 1, Len(s) - 1)) ELSE s

\* str.strip()
strip(s) == rstrip(lstrip(s))

Digit(d) == <<"0", "1", "2", "3", "4", "5", "6", "7", "8", "9">>[d + 1]

\* str(n) of a non-negative int
RECURSIVE IntStr(_)
IntStr(n) == IF n < 10 THEN <<Digit(n)>> ELSE IntStr(n \div 10) \o <<Digit(n % 10)>>

\* str(x) of the float x = tenths / 10 that a number_input with step 0.1 holds
FloatStr(tenths) == IntStr(tenths \div 10) \o <<".">> \o <<Digit(tenths % 10)>>

\* needle in haystack, for two strings
IsSubstring(needle, haystack) ==
    \E i \in 0..(Len(haystack) - Len(needle)) :
        SubSeq(haystack, i + 1, i + Len(needle)) = needle

---------------------------------------------------------------------------
(* Prompt Builder *)

TplDetails == <<"D", "e", "t", "a", "i", "l", "s", ":", " ", "W", ":">>
TplKg == <<"k", "g", ",", " ", "H", ":">>
TplCm == <<"c", "m", ",", " ", "A", "c", "t", ":">>
TplRestr == <<";", " ", "R", "e", "s", "t", "r", ":">>
TplGoal == <<";", " ", "G", "o", "a", "l", ":">>
TplQuery == <<".", "\n", "Q", "u", "e", "r", "y", ":", " ">>
TplPlan == <<".", "\n", "P", "l", "a", "n", ":", " ", "P", "r", "o", "v", "i", "d", "e", " ", "c", "a", "l", "o", "r", "i", "e", " ", "i", "n", "t", "a", "k", "e", ",", " ", "n", "u", "t", "r", "i", "e", "n", "t", " ", "(", "g", ")", " ", "b", "r", "e", "a", "k", "d", "o", "w", "n", ",", " ", "m", "e", "a", "l", " ", "s", "u", "g", "g", "e", "s", "t", "i", "o", "n", "s", ",", " ", "a", "n", "d", " ", "g", "u", "i", "d", "e", "l", "i", "n", "e", "s", ".">>

\* faulty variant: the query is stripped on the left only
refine_prompt_lstrip(q, w, h, act, restr, g) ==
    TplDetails \o FloatStr(w) \o TplKg \o FloatStr(h) \o TplCm \o act
        \o TplRestr \o restr \o TplGoal \o g \o TplQuery \o lstrip(q) \o TplPlan

refine_prompt(q, w, h, act, restr, g) ==
    TplDetails \o FloatStr(w) \o TplKg \o FloatStr(h) \o TplCm \o act
        \o TplRestr \o restr \o TplGoal \o g \o TplQuery \o strip(q) \o TplPlan

---------------------------------------------------------------------------
(* Limit Enforcer *)

FREE_TIER_LIMIT == 256

\* faulty variant: the slice keeps one character too many
enforce_off_by_one(prompt, limit) ==
    IF Len(prompt) > limit THEN Slice(prompt, limit + 1) ELSE prompt

\* faulty variant: a long prompt loses its last character instead of being cut to the limit
enforce_drop_last(prompt, limit) ==
    IF Len(prompt) > limit THEN Slice(prompt, Len(prompt) - 1) ELSE prompt

enforce_free_tier_limit(prompt, limit) ==
    IF Len(prompt) > limit THEN Slice(prompt, limit) ELSE prompt

---------------------------------------------------------------------------
(* Python values: what response.json() yields and what call_deepseek_api   *)
(* returns.  Every value is a record of the same shape; t is the type.     *)

PyNoneVal      == [t |-> "NoneType", s |-> <<>>, n |-> 0, keys |-> <<>>, items |-> <<>>]
PyBool(b)      == [t |-> "bool", s |-> <<>>, n |-> IF b THEN 1 ELSE 0, keys |-> <<>>, items |-> <<>>]
PyInt(n)       == [t |-> "int",  s |-> <<>>, n |-> n, keys |-> <<>>, items |-> <<>>]
PyString(s)    == [t |-> "str",  s |-> s, n |-> 0, keys |-> <<>>, items |-> <<>>]
PyList(items)  == [t |-> "list", s |-> <<>>, n |-> 0, keys |-> <<>>, items |-> items]
PyDict(ks, vs) == [t |-> "dict", s |-> <<>>, n |-> 0, keys |-> ks, items |-> vs]

\* d[k] = v on a dict: a repeated key keeps its place and takes the new value
DictSet(d, k, v) ==
    IF \E i \in 1..Len(d.keys) : d.keys[i] = k
    THEN LET i == CHOOSE j \in 1..Len(d.keys) : d.keys[j] = k
         IN  PyDict(d.keys, [d.items EXCEPT ![i] = v])
    ELSE PyDict(Append(d.keys, k), Append(d.items, v))

\* d[k] on a dict that has the key
DictGet(d, k) == d.items[CHOOSE j \in 1..Len(d.keys) : d.keys[j] = k]

RECURSIVE JoinWith(_, _)
JoinWith(parts, sep) ==
    IF parts = <<>> THEN <<>>
    ELSE IF Len(parts) = 1 THEN parts[1]
    ELSE parts[1] \o sep \o JoinWith(Tail(parts), sep)

\* repr() of a str without backslashes or control characters
StrRepr(s) ==
    IF (\E i \in 1..Len(s) : s[i] = "'") /\ ~(\E i \in 1..Len(s) : s[i] = "\"")
    THEN <<"\"">> \o s \o <<"\"">>
    ELSE <<"'">> \o s \o <<"'">>

RECURSIVE PyRepr(_)
PyRepr(v) ==
    CASE v.t = "NoneType" -> <<"N", "o", "n", "e">>
      [] v.t = "bool" -> IF v.n = 1 THEN <<"T", "r", "u", "e">> ELSE <<"F", "a", "l", "s", "e">>
      [] v.t = "int"  -> IF v.n < 0 THEN <<"-">> \o IntStr(0 - v.n) ELSE IntStr(v.n)
      [] v.t = "str"  -> StrRepr(v.s)
      [] v.t = "list" ->
            <<"[">> \o JoinWith([i \in 1..Len(v.items) |-> PyRepr(v.items[i])], <<",", " ">>) \o <<"]">>
      [] v.t = "dict" ->
            <<"{">> \o JoinWith([i \in 1..Len(v.keys) |->
                          StrRepr(v.keys[i]) \o <<":", " ">> \o PyRepr(v.items[i])], <<",", " ">>)
                  \o <<"}">>

\* str(v)
PyStr(v) == IF v.t = "str" THEN v.s ELSE PyRepr(v)

---------------------------------------------------------------------------
(* response.json(): a JSON decoder for bodies without string escapes and   *)
(* without fractions or exponents, which the replies of the model never    *)
(* contain.  A decoding step yields [ok, val, pos]: pos is the index after *)
(* the decoded text.                                                       *)

JsonWs == {" ", "\n"}
Digits == {"0", "1", "2", "3", "4", "5", "6", "7", "8", "9"}
DigitVal(c) == CHOOSE d \in 0..9 : Digit(d) = c

JsonFail == [ok |-> FALSE, val |-> PyNoneVal, pos |-> 0]
JsonOk(v, p) == [ok |-> TRUE, val |-> v, pos |-> p]

RECURSIVE SkipWs(_, _)
SkipWs(s, i) == IF i <= Len(s) /\ s[i] \in JsonWs THEN SkipWs(s, i + 1) ELSE i

HasAt(s, i, word) == i + Len(word) - 1 <= Len(s) /\ SubSeq(s, i, i + Len(word) - 1) = word

\* index of the quote that closes a string whose content starts at i, or 0
RECURSIVE ScanString(_, _)
ScanString(s, i) ==
    IF i > Len(s) THEN 0
    ELSE IF s[i] = "\"" THEN i
    ELSE IF s[i] \in {"\\", "\n"} THEN 0
    ELSE ScanString(s, i + 1)

ParseString(s, i) ==
    LET close == ScanString(s, i + 1)
    IN  IF close = 0 THEN JsonFail ELSE JsonOk(PyString(SubSeq(s, i + 1, close - 1)), close + 1)

RECURSIVE ScanDigits(_, _)
ScanDigits(s, i) == IF i <= Len(s) /\ s[i] \in Digits THEN ScanDigits(s, i + 1) ELSE i

RECURSIVE DigitsVal(_)
DigitsVal(ds) == IF ds = <<>> THEN 0
                 ELSE 10 * DigitsVal(SubSeq(ds, 1, Len(ds) - 1)) + DigitVal(ds[Len(ds)])

ParseNumber(s, i) ==
    LET neg   == s[i] = "-"
        start == IF neg THEN i + 1 ELSE i
        stop  == ScanDigits(s, start)
        ds    == SubSeq(s, start, stop - 1)
    IN  IF stop = start THEN JsonFail
        ELSE IF Len(ds) > 1 /\ ds[1] = "0" THEN JsonOk(PyInt(0), start + 1)
        ELSE JsonOk(PyInt(IF neg THEN 0 - DigitsVal(ds) ELSE DigitsVal(ds)), stop)

RECURSIVE ParseValue(_, _)
RECURSIVE ParseElements(_, _, _)
RECURSIVE ParseMembers(_, _, _)

\* the elements of an array after "[", the first of them starting at i
ParseElements(s, i, acc) ==
    LET e == ParseValue(s, i)
        j == SkipWs(s, e.pos)
    IN  IF ~e.ok \/ j > Len(s) THEN JsonFail
        ELSE IF s[j] = "]" THEN JsonOk(PyList(Append(acc, e.val)), j + 1)
        ELSE IF s[j] = "," THEN ParseElements(s, SkipWs(s, j + 1), Append(acc, e.val))
        ELSE JsonFail

\* the members of an object after "{", the first key starting at i
ParseMembers(s, i, acc) ==
    IF i > Len(s) \/ s[i] # "\"" THEN JsonFail
    ELSE LET k == ParseString(s, i)
             c == SkipWs(s, k.pos)
         IN  IF ~k.ok \/ c > Len(s) \/ s[c] # ":" THEN JsonFail
             ELSE LET e == ParseValue(s, SkipWs(s, c + 1))
                      j == SkipWs(s, e.pos)
                  IN  IF ~e.ok \/ j > Len(s) THEN JsonFail
                      ELSE IF s[j] = "}" THEN JsonOk(DictSet(acc, k.val.s, e.val), j + 1)
                      ELSE IF s[j] = ","
                           THEN ParseMembers(s, SkipWs(s, j + 1), DictSet(acc, k.val.s, e.val))
                      ELSE JsonFail

ParseValue(s, i) ==
    IF i > Len(s) THEN JsonFail
    ELSE CASE s[i] = "\"" -> ParseString(s, i)
           [] s[i] = "[" ->
                LET j == SkipWs(s, i + 1)
                IN  IF j <= Len(s) /\ s[j] = "]" THEN JsonOk(PyList(<<>>), j + 1)
                    ELSE ParseElements(s, j, <<>>)
           [] s[i] = "{" ->
                LET j == SkipWs(s, i + 1)
                IN  IF j <= Len(s) /\ s[j] = "}" THEN JsonOk(PyDict(<<>>, <<>>), j + 1)
                    ELSE ParseMembers(s, j, PyDict(<<>>, <<>>))
           [] s[i] = "-" \/ s[i] \in Digits -> ParseNumber(s, i)
           [] HasAt(s, i, <<"t", "r", "u", "e">>) -> JsonOk(PyBool(TRUE), i + 4)
           [] HasAt(s, i, <<"f", "a", "l", "s", "e">>) -> JsonOk(PyBool(FALSE), i + 5)
           [] HasAt(s, i, <<"n", "u", "l", "l">>) -> JsonOk(PyNoneVal, i + 4)
           [] OTHER -> JsonFail

\* response.json(): ok is FALSE where it raises JSONDecodeError
json(text) ==
    LET r == ParseValue(text, SkipWs(text, 1))
    IN  IF r.ok /\ SkipWs(text, r.pos) = Len(text) + 1 THEN r ELSE JsonFail

---------------------------------------------------------------------------
(* Inference Client *)

GENERATED_TEXT == <<"g", "e", "n", "e", "r", "a", "t", "e", "d", "_", "t", "e", "x", "t">>
ErrorPrefix == <<"E", "r", "r", "o", "r", ":", " ">>
ErrorSep == <<" ", "-", " ">>

\* faulty variant: only the 4xx and 5xx status codes count as errors
StatusIsError_4xx(status_code) == status_code >= 400

\* response.status_code != 200
StatusIsError(status_code) == status_code # 200

\* "generated_text" in first: [raised, value]
Contains(first) ==
    CASE first.t = "dict" ->
            [raised |-> "none", value |-> \E i \in 1..Len(first.keys) : first.keys[i] = GENERATED_TEXT]
      [] first.t = "str" ->
            [raised |-> "none", value |-> IsSubstring(GENERATED_TEXT, first.s)]
      [] first.t = "list" ->
            [raised |-> "none",
             value |-> \E i \in 1..Len(first.items) : first.items[i] = PyString(GENERATED_TEXT)]
      [] OTHER -> [raised |-> "TypeError", value |-> FALSE]

\* first["generated_text"]: [raised, value]
Subscript(first) ==
    IF first.t = "dict"
    THEN [raised |-> "none", value |-> DictGet(first, GENERATED_TEXT)]
    ELSE [raised |-> "TypeError", value |-> PyNoneVal]

\* what a call did: the exception it raised or the value it returned, the
\* "inputs" of its payload, the POSTs it issued and whether it decoded the body
ApiResult(prompt, exc, v, decoded) ==
    [raised |-> exc, ret |-> v, inputs |-> prompt, posts |-> 1, json_called |-> decoded]

\* lines 59-61, once "generated_text" in result[0] has been evaluated to found
ReturnField(prompt, result, found) ==
    IF found.raised # "none" THEN ApiResult(prompt, found.raised, PyNoneVal, TRUE)
    ELSE IF found.value
    THEN (IF Subscript(result.items[1]).raised # "none"
          THEN ApiResult(prompt, Subscript(result.items[1]).raised, PyNoneVal, TRUE)
          ELSE ApiResult(prompt, "none", Subscript(result.items[1]).value, TRUE))
    ELSE ApiResult(prompt, "none", PyString(PyStr(result)), TRUE)

\* lines 58-61, once response.json() has been evaluated to parsed
ReturnResult(prompt, parsed) ==
    IF ~parsed.ok THEN ApiResult(prompt, "JSONDecodeError", PyNoneVal, TRUE)
    ELSE IF parsed.val.t = "list" /\ Len(parsed.val.items) > 0
    THEN ReturnField(prompt, parsed.val, Contains(parsed.val.items[1]))
    ELSE ApiResult(prompt, "none", PyString(PyStr(parsed.val)), TRUE)

\* outcome is what requests.post does: it raises ConnectionError or yields a
\* response with a status_code and a text
call_deepseek_api(prompt, outcome) ==
    IF outcome.kind = "ConnectionError"
    THEN ApiResult(prompt, "ConnectionError", PyNoneVal, FALSE)
    ELSE IF StatusIsError(outcome.status_code)
    THEN ApiResult(prompt, "none",
                   PyString(ErrorPrefix \o IntStr(outcome.status_code) \o ErrorSep \o outcome.text),
                   FALSE)
    ELSE ReturnResult(prompt, json(outcome.text))

---------------------------------------------------------------------------
(* Verification Stub *)

verify_with_medical_db(response_text) ==
    [verified |-> TRUE,
     verification_message |-> "Response verified against trusted nutrition and medical databases."]

---------------------------------------------------------------------------
(* Submission Orchestrator *)

\* faulty variant: only an empty value counts as missing, an unset variable does not
KeyMissing_empty(key) == key.set /\ key.value = <<>>

\* not HUGGINGFACE_API_KEY: the variable is unset (None) or set to ""
KeyMissing(key) == ~key.set \/ key.value = <<>>

\* faulty variant: the query is tested without strip()
QueryMissing_raw(q) == q = <<>>

\* not nutrition_query.strip()
QueryMissing(q) == strip(q) = <<>>

\* what one pipeline pass has put on the screen and sent, given the values
\* of its local variables
Shown(q, profile, engineered_prompt, truncated_prompt, outcome, api, v) ==
    [query              |-> q,
     profile            |-> profile,
     engineered_prompt  |-> engineered_prompt,
     truncated_prompt   |-> truncated_prompt,
     total_length       |-> Len(truncated_prompt),
     warning            |-> Len(engineered_prompt) # Len(truncated_prompt),
     outcome            |-> outcome,
     inputs             |-> api.inputs,
     posts              |-> api.posts,
     json_called        |-> api.json_called,
     raised             |-> api.raised,
     response           |-> api.ret,
     response_displayed |-> api.raised = "none",
     verification       |-> IF api.raised # "none" THEN "none"
                            ELSE IF v.verified THEN "success" ELSE "warning",
     trace              |-> IF api.raised # "none"
                            THEN <<"refine_prompt", "enforce_free_tier_limit",
                                   "call_deepseek_api">>
                            ELSE <<"refine_prompt", "enforce_free_tier_limit",
                                   "call_deepseek_api", "verify_with_medical_db">>]

\* one Builder -> Enforcer -> Client -> Verification pass over the text q
\* with the profile of the form
pipeline(q, w, h, act, restr, g, outcome) ==
    LET Verified(engineered_prompt, truncated_prompt, api) ==
            Shown(q, <<w, h, act, restr, g>>, engineered_prompt, truncated_prompt, outcome,
                  api, verify_with_medical_db(api.ret))
        Called(engineered_prompt, truncated_prompt) ==
            Verified(engineered_prompt, truncated_prompt,
                     call_deepseek_api(truncated_prompt, outcome))
        Enforced(engineered_prompt) ==
            Called(engineered_prompt,
                   enforce_free_tier_limit(engineered_prompt, FREE_TIER_LIMIT))
    IN  Enforced(refine_prompt(q, w, h, act, restr, g))

\* what a run of main() leaves behind
MainResult(error, passes, exc, clarification) ==
    [validation_error |-> error, runs |-> passes, uncaught |-> exc,
     clarification_rendered |-> clarification]

\* lines 108-152, with the two passes as values; followup is used only
\* where the code runs it
Submitted(info, first, followup) ==
    IF first.raised # "none" THEN MainResult(FALSE, <<first>>, first.raised, FALSE)
    ELSE IF strip(info) # <<>>
    THEN MainResult(FALSE, <<first, followup>>, followup.raised, TRUE)
    ELSE MainResult(FALSE, <<first>>, "none", TRUE)

\* main() for one script run: submitted is the value of form_submit_button
main(submitted, q, w, h, act, restr, g, info, out1, out2) ==
    IF ~submitted THEN MainResult(FALSE, <<>>, "none", FALSE)
    ELSE IF QueryMissing(q) THEN MainResult(TRUE, <<>>, "none", FALSE)
    ELSE Submitted(info, pipeline(q, w, h, act, restr, g, out1),
                   pipeline(info, w, h, act, restr, g, out2))

---------------------------------------------------------------------------
(* Inputs *)

Sedentary   == <<"S", "e", "d", "e", "n", "t", "a", "r", "y">>
VeryActive  == <<"V", "e", "r", "y", " ", "a", "c", "t", "i", "v", "e">>
NoneText    == <<"N", "o", "n", "e">>
Maintenance == <<"M", "a", "i", "n", "t", "e", "n", "a", "n", "c", "e">>

\* the widget defaults of lines 93-97
DefaultProfile == [weight |-> 700, height |-> 1700, activity_level |-> Sedentary,
                   food_restriction |-> NoneText, goal |-> Maintenance]

OtherProfile == [weight |-> 5, height |-> 1805, activity_level |-> VeryActive,
                 food_restriction |-> <<"N", "o", " ", "n", "u", "t", "s">>,
                 goal |-> <<"c", "u", "t">>]

Profiles == {DefaultProfile, OtherProfile}

Queries ==
    {<<>>, <<" ", "\n">>, <<" ", "a", " ", "b", "\n">>,
     Repeat("a", LongQueryLen), Repeat("a", LongQueryLen + 1)}

ClarificationTexts ==
    {<<>>, <<" ">>, <<" ", "b", " ", "c", "\n">>, Repeat("b", LongQueryLen + 1)}

KeySet == [set |-> TRUE, value |-> <<"h", "f", "_", "x">>]

Keys == {[set |-> FALSE, value |-> <<>>], [set |-> TRUE, value |-> <<>>], KeySet}

BodyGenerated == <<"[", "{", "\"", "g", "e", "n", "e", "r", "a", "t", "e", "d", "_", "t", "e", "x", "t", "\"", ":", "\"", "X", "\"", "}", "]">>
BodyUnexpected == <<"{", "\"", "u", "n", "e", "x", "p", "e", "c", "t", "e", "d", "\"", ":", "\"", "s", "h", "a", "p", "e", "\"", "}">>
BodyNumberFirst == <<"[", "1", "]">>
BodyHtml == <<"<", "h", "t", "m", "l", ">">>
BodyNotFound == <<"N", "o", "t", " ", "F", "o", "u", "n", "d">>

Response(status_code, text) == [kind |-> "response", status_code |-> status_code, text |-> text]

NoConnection == [kind |-> "ConnectionError", status_code |-> 0, text |-> <<>>]

\* what the remote end does in a session
Outcomes ==
    {NoConnection,
     Response(200, BodyGenerated), Response(200, BodyUnexpected),
     Response(200, BodyNumberFirst), Response(200, BodyHtml),
     Response(404, BodyNotFound)}

\* the bodies and status codes the Inference Client is applied to on its own
Bodies ==
    {BodyGenerated, BodyUnexpected, BodyNumberFirst, BodyHtml, BodyNotFound,
     <<>>,
     <<"[", "]">>,
     <<"5">>,
     <<"[", "n", "u", "l", "l", "]">>,
     <<"[", "\"", "a", "b", "\"", "]">>,
     <<"[", "\"", "g", "e", "n", "e", "r", "a", "t", "e", "d", "_", "t", "e", "x", "t", "\"", "]">>,
     <<"[", "[", "\"", "g", "e", "n", "e", "r", "a", "t", "e", "d", "_", "t", "e", "x", "t", "\"", "]", "]">>,
     <<"[", "{", "\"", "a", "\"", ":", "1", "}", "]">>,
     <<"[", "{", "\"", "g", "e", "n", "e", "r", "a", "t", "e", "d", "_", "t", "e", "x", "t", "\"", ":", "\"", "X", "\"", "}", ",", " ", "2", "]">>,
     <<"[", "{", "\"", "g", "e", "n", "e", "r", "a", "t", "e", "d", "_", "t", "e", "x", "t", "\"", ":", "n", "u", "l", "l", "}", "]">>,
     <<"{", "\"", "e", "r", "r", "o", "r", "\"", ":", "\"", "l", "o", "a", "d", "i", "n", "g", "\"", "}">>}

StatusCodes == {200, 201, 404, 503}

---------------------------------------------------------------------------
(* The Streamlit session.  The script is executed from its first line at   *)
(* every run; form_submit_button is True only in the run that its click    *)
(* started; the widgets of the form send their values with that click and  *)
(* start no run of their own; a text_input outside the form requests a run *)
(* when its value changes; a widget that a run does not render loses its   *)
(* value; a click that arrives before a requested run has started is       *)
(* merged with that request into one run.                                  *)

NoRun == [by |-> "none", submitted |-> FALSE, additional_info |-> <<>>]

\* the process before any browser has opened the page
NoSession ==
    /\ nutrition_query = <<>>
    /\ weight = DefaultProfile.weight
    /\ height = DefaultProfile.height
    /\ activity_level = DefaultProfile.activity_level
    /\ food_restriction = DefaultProfile.food_restriction
    /\ goal = DefaultProfile.goal
    /\ additional_info = <<>>
    /\ form_rendered = FALSE
    /\ clarification_rendered = FALSE
    /\ rerun_pending = FALSE
    /\ last_run = NoRun
    /\ main_reached = FALSE
    /\ key_error = FALSE
    /\ validation_error = FALSE
    /\ runs = <<>>
    /\ uncaught = "none"

Init ==
    /\ HUGGINGFACE_API_KEY \in Keys
    /\ NoSession
    /\ fn_args = <<>>
    /\ fn_result = <<>>
    /\ fn_pc = 0

\* one execution of the script, lines 6-9 and then main(), with the widget
\* values q .. g and info that the run sees
RunScript(by, submitted, q, w, h, act, restr, g, info, out1, out2) ==
    \E m \in {main(submitted, q, w, h, act, restr, g, info, out1, out2)} :
        /\ last_run' = [by |-> by, submitted |-> submitted, additional_info |-> info]
        /\ rerun_pending' = FALSE
        /\ IF KeyMissing(HUGGINGFACE_API_KEY)
           THEN /\ key_error' = TRUE
                /\ main_reached' = FALSE
                /\ form_rendered' = FALSE
                /\ clarification_rendered' = FALSE
                /\ validation_error' = FALSE
                /\ runs' = <<>>
                /\ uncaught' = "none"
                /\ additional_info' = <<>>
           ELSE /\ key_error' = FALSE
                /\ main_reached' = TRUE
                /\ form_rendered' = TRUE
                /\ clarification_rendered' = m.clarification_rendered
                /\ validation_error' = m.validation_error
                /\ runs' = m.runs
                /\ uncaught' = m.uncaught
                /\ additional_info' = IF m.clarification_rendered THEN info ELSE <<>>
        /\ UNCHANGED <<HUGGINGFACE_API_KEY, fnvars>>

\* a browser opens the page: a new session with the widget defaults
OpenPage ==
    /\ nutrition_query' = <<>>
    /\ weight' = DefaultProfile.weight
    /\ height' = DefaultProfile.height
    /\ activity_level' = DefaultProfile.activity_level
    /\ food_restriction' = DefaultProfile.food_restriction
    /\ goal' = DefaultProfile.goal
    /\ RunScript("load", FALSE, <<>>, DefaultProfile.weight, DefaultProfile.height,
                 DefaultProfile.activity_level, DefaultProfile.food_restriction,
                 DefaultProfile.goal, <<>>, NoConnection, NoConnection)

\* the user changes the clarification input, which requests a rerun
EnterClarification ==
    /\ clarification_rendered
    /\ \E t \in ClarificationTexts :
        /\ t # additional_info
        /\ additional_info' = t
    /\ rerun_pending' = TRUE
    /\ UNCHANGED <<HUGGINGFACE_API_KEY, widgets, screen, form_rendered,
                   clarification_rendered, last_run, fnvars>>

\* the rerun that the clarification input requested
Rerun ==
    /\ rerun_pending
    /\ RunScript("clarification", FALSE, nutrition_query, weight, height, activity_level,
                 food_restriction, goal, additional_info, NoConnection, NoConnection)
    /\ UNCHANGED widgets

\* the user fills in the form and clicks Submit: the click sends the values
\* of the form's widgets and starts a run.  The remote end answers each call
\* of the run with an outcome of its choice.
ClickSubmit ==
    /\ form_rendered
    /\ \E q \in Queries, p \in Profiles, out1 \in Outcomes :
        \E out2 \in (IF strip(additional_info) # <<>> THEN Outcomes ELSE {NoConnection}) :
            /\ nutrition_query' = q
            /\ weight' = p.weight
            /\ height' = p.height
            /\ activity_level' = p.activity_level
            /\ food_restriction' = p.food_restriction
            /\ goal' = p.goal
            /\ RunScript("submit", TRUE, q, p.weight, p.height, p.activity_level,
                         p.food_restriction, p.goal, additional_info, out1, out2)

Next == OpenPage \/ EnterClarification \/ Rerun \/ ClickSubmit

Spec == Init /\ [][Next]_vars

---------------------------------------------------------------------------
(* The Limit Enforcer on its own: every prompt and every limit *)

RECURSIVE Strings(_, _)
Strings(alphabet, n) ==
    IF n = 0 THEN {<<>>}
    ELSE Strings(alphabet, n - 1)
         \cup {Append(s, c) : s \in Strings(alphabet, n - 1), c \in alphabet}

InitEnforce ==
    /\ HUGGINGFACE_API_KEY = KeySet
    /\ NoSession
    /\ fn_args \in [prompt : Strings({"a", "b"}, MaxStrLen), limit : (0 - 1)..MaxLimit]
    /\ fn_result = <<>>
    /\ fn_pc = 0

EnforceOnce ==
    /\ fn_pc = 0
    /\ fn_result' = <<enforce_free_tier_limit(fn_args.prompt, fn_args.limit)>>
    /\ fn_pc' = 1
    /\ UNCHANGED <<HUGGINGFACE_API_KEY, widgets, screen, session, fn_args>>

EnforceAgain ==
    /\ fn_pc = 1
    /\ fn_result' = Append(fn_result, enforce_free_tier_limit(fn_result[1], fn_args.limit))
    /\ fn_pc' = 2
    /\ UNCHANGED <<HUGGINGFACE_API_KEY, widgets, screen, session, fn_args>>

NextEnforce == EnforceOnce \/ EnforceAgain

SpecEnforce == InitEnforce /\ [][NextEnforce]_vars

---------------------------------------------------------------------------
(* The Prompt Builder on its own: every query over a small alphabet *)

InitBuilder ==
    /\ HUGGINGFACE_API_KEY = KeySet
    /\ NoSession
    /\ fn_args \in [query : Strings({" ", "\n", "a"}, MaxQueryLen), profile : Profiles]
    /\ fn_result = <<>>
    /\ fn_pc = 0

BuildPrompt ==
    /\ fn_pc = 0
    /\ fn_result' = <<refine_prompt(fn_args.query, fn_args.profile.weight,
                                    fn_args.profile.height, fn_args.profile.activity_level,
                                    fn_args.profile.food_restriction, fn_args.profile.goal)>>
    /\ fn_pc' = 1
    /\ UNCHANGED <<HUGGINGFACE_API_KEY, widgets, screen, session, fn_args>>

NextBuilder == BuildPrompt

SpecBuilder == InitBuilder /\ [][NextBuilder]_vars

---------------------------------------------------------------------------
(* The Inference Client on its own: every status code with every body *)

InitClient ==
    /\ HUGGINGFACE_API_KEY = KeySet
    /\ NoSession
    /\ fn_args \in [prompt : {<<>>, <<"h", "i">>},
                    outcome : {NoConnection}
                              \cup {Response(c, b) : c \in StatusCodes, b \in Bodies}]
    /\ fn_result = <<>>
    /\ fn_pc = 0

CallApi ==
    /\ fn_pc = 0
    /\ fn_result' = <<call_deepseek_api(fn_args.prompt, fn_args.outcome)>>
    /\ fn_pc' = 1
    /\ UNCHANGED <<HUGGINGFACE_API_KEY, widgets, screen, session, fn_args>>

NextClient == CallApi

SpecClient == InitClient /\ [][NextClient]_vars

---------------------------------------------------------------------------
(* Properties *)

Min(a, b) == IF a < b THEN a ELSE b

AllWhitespace(s) == \A i \in 1..Len(s) : s[i] \in Whitespace

\* s from its first to its last character that is not whitespace
Trimmed(s) ==
    LET solid == {i \in 1..Len(s) : s[i] \notin Whitespace}
    IN  IF solid = {} THEN <<>>
        ELSE SubSeq(s, CHOOSE i \in solid : \A j \in solid : i <= j,
                       CHOOSE i \in solid : \A j \in solid : j <= i)

\* the text Python prints for the numbers of the profiles
NumberText(tenths) ==
    CASE tenths = 700  -> <<"7", "0", ".", "0">>
      [] tenths = 1700 -> <<"1", "7", "0", ".", "0">>
      [] tenths = 5    -> <<"0", ".", "5">>
      [] tenths = 1805 -> <<"1", "8", "0", ".", "5">>

StatusText(status_code) ==
    CASE status_code = 201 -> <<"2", "0", "1">>
      [] status_code = 404 -> <<"4", "0", "4">>
      [] status_code = 503 -> <<"5", "0", "3">>

\* C1: for every string s and limit L >= 0, enforce_free_tier_limit(s, L) has
\* length min(len(s), L) and is a prefix of s: s itself when len(s) <= L,
\* otherwise the first L characters of s.
C1_EnforceLengthAndPrefix ==
    (fn_pc >= 1 /\ fn_args.limit >= 0) =>
        LET s == fn_args.prompt
            L == fn_args.limit
            r == fn_result[1]
        IN  /\ Len(r) = Min(Len(s), L)
            /\ \A i \in 1..Len(r) : r[i] = s[i]
            /\ Len(s) <= L => r = s
            /\ Len(s) > L => r = [i \in 1..L |-> s[i]]

C1_Witness ==
    /\ fn_pc >= 1
    /\ fn_args.limit >= 1
    /\ Len(fn_args.prompt) > fn_args.limit + 1
    /\ Len(fn_result[1]) = fn_args.limit

\* C2: whenever the remote call returns a status other than 200, the client
\* returns exactly "Error: <status> - <body>", without decoding the body as
\* JSON and with the one request it issued.
C2_ErrorString ==
    (fn_pc = 1 /\ fn_args.outcome.kind = "response" /\ fn_args.outcome.status_code # 200) =>
        /\ fn_result[1].raised = "none"
        /\ fn_result[1].ret =
              PyString(<<"E", "r", "r", "o", "r", ":", " ">>
                       \o StatusText(fn_args.outcome.status_code)
                       \o <<" ", "-", " ">> \o fn_args.outcome.text)
        /\ ~fn_result[1].json_called
        /\ fn_result[1].posts = 1

C2_Witness ==
    /\ fn_pc = 1
    /\ fn_args.outcome.kind = "response"
    /\ fn_args.outcome.status_code = 201
    /\ fn_args.outcome.text = <<"[", "]">>
    /\ fn_result[1].ret.s = <<"E", "r", "r", "o", "r", ":", " ", "2", "0", "1", " ", "-", " ", "[", "]">>

\* the body is a non-empty list whose first element is an object with a
\* generated_text field
HasGeneratedText(body) ==
    /\ body.t = "list"
    /\ Len(body.items) > 0
    /\ body.items[1].t = "dict"
    /\ \E i \in 1..Len(body.items[1].keys) : body.items[1].keys[i] = GENERATED_TEXT

\* C3: on a status-200 reply with a JSON body, the client returns the
\* generated_text field of the first element when the body is a non-empty
\* list whose first element is an object with that field, and the string form
\* of the whole body for every other body shape.
C3_ShapeFallback ==
    (/\ fn_pc = 1
     /\ fn_args.outcome.kind = "response"
     /\ fn_args.outcome.status_code = 200
     /\ json(fn_args.outcome.text).ok) =>
        LET body == json(fn_args.outcome.text).val
        IN  /\ fn_result[1].raised = "none"
            /\ fn_result[1].ret = IF HasGeneratedText(body)
                                  THEN DictGet(body.items[1], GENERATED_TEXT)
                                  ELSE PyString(PyStr(body))

\* C4: no pipeline run ends in an uncaught exception: every run that was
\* started has displayed its model response.
C4_NoUncaughtException ==
    /\ uncaught = "none"
    /\ \A i \in 1..Len(runs) : runs[i].response_displayed

Executed == UNION {{runs[i].trace[j] : j \in 1..Len(runs[i].trace)} : i \in 1..Len(runs)}

\* C5: a submission whose query is empty or only whitespace shows the
\* validation error, executes neither refine_prompt, call_deepseek_api nor
\* verify_with_medical_db, issues no request and does not offer the
\* clarification input.
C5_EmptyQueryNoCall ==
    (last_run.submitted /\ main_reached /\ AllWhitespace(nutrition_query)) =>
        /\ validation_error
        /\ Executed = {}
        /\ \A i \in 1..Len(runs) : runs[i].posts = 0
        /\ ~clarification_rendered

C5_Witness ==
    /\ last_run.submitted
    /\ main_reached
    /\ nutrition_query = <<" ", "\n">>
    /\ validation_error

\* C6: the script run that non-empty text in the clarification input starts
\* runs the pipeline with the clarification text as the query and the
\* profile of the form.
C6_ClarificationRunsPipeline ==
    (last_run.by = "clarification" /\ ~AllWhitespace(last_run.additional_info)) =>
        \E i \in 1..Len(runs) :
            /\ runs[i].query = last_run.additional_info
            /\ runs[i].profile = <<weight, height, activity_level, food_restriction, goal>>
            /\ runs[i].posts = 1

\* C7: with the API key absent from the environment, every script run shows
\* the error and stops before main(): the form is not served and no request
\* is issued.
C7_NoKeyNoService ==
    ~HUGGINGFACE_API_KEY.set =>
        /\ ~main_reached
        /\ ~form_rendered
        /\ ~clarification_rendered
        /\ runs = <<>>
        /\ last_run.by # "none" => key_error

C7_Witness ==
    /\ ~HUGGINGFACE_API_KEY.set
    /\ last_run.by = "load"
    /\ key_error

\* C8: enforce_free_tier_limit is idempotent for every string and every
\* limit L >= 0: applied to its own result with the same limit it returns
\* that result.
C8_EnforceIdempotent ==
    (fn_pc = 2 /\ fn_args.limit >= 0) => fn_result[2] = fn_result[1]

C8_Witness ==
    /\ fn_pc = 2
    /\ fn_args.limit >= 0
    /\ Len(fn_args.prompt) > fn_args.limit + 1
    /\ fn_result[2] = fn_result[1]

\* C9: refine_prompt returns the template with weight, height, activity,
\* restriction and goal in that order on the Details line and, on the Query
\* line, the query without its leading and trailing whitespace and with its
\* internal whitespace unchanged.
C9_PromptTemplate ==
    fn_pc = 1 =>
        fn_result[1] =
            <<"D", "e", "t", "a", "i", "l", "s", ":", " ", "W", ":">>
            \o NumberText(fn_args.profile.weight) \o <<"k", "g", ",", " ", "H", ":">>
            \o NumberText(fn_args.profile.height) \o <<"c", "m", ",", " ", "A", "c", "t", ":">>
            \o fn_args.profile.activity_level \o <<";", " ", "R", "e", "s", "t", "r", ":">>
            \o fn_args.profile.food_restriction \o <<";", " ", "G", "o", "a", "l", ":">>
            \o fn_args.profile.goal \o <<".", "\n", "Q", "u", "e", "r", "y", ":", " ">>
            \o Trimmed(fn_args.query) \o TplPlan

C9_Witness ==
    /\ fn_pc = 1
    /\ fn_args.query = <<" ", "a", "\n", "a", " ">>
    /\ fn_args.profile = OtherProfile
    /\ Len(fn_result[1]) = Len(refine_prompt(<<>>, 5, 1805, VeryActive,
                                             OtherProfile.food_restriction, OtherProfile.goal)) + 3

\* C10: in every pipeline run, primary and follow-up, the string sent to
\* call_deepseek_api is the built prompt cut to its first 256 characters, so
\* it has at most 256 characters, and the truncation warning is shown exactly
\* when the built prompt was longer than 256 characters.
C10_SentPromptWithinLimit ==
    \A i \in 1..Len(runs) :
        LET built == runs[i].engineered_prompt
            sent  == runs[i].inputs
        IN  /\ built = refine_prompt(runs[i].query, weight, height, activity_level,
                                     food_restriction, goal)
            /\ Len(sent) <= 256
            /\ Len(sent) = Min(Len(built), 256)
            /\ \A k \in 1..Len(sent) : sent[k] = built[k]
            /\ runs[i].warning <=> Len(built) > 256

C10_Witness ==
    /\ Len(runs) = 2
    /\ Len(runs[1].engineered_prompt) = 256
    /\ ~runs[1].warning
    /\ Len(runs[2].engineered_prompt) > 256
    /\ runs[2].warning
    /\ Len(runs[2].inputs) = 256

=============================================================================
